---- MODULE Spec2Model ----
(***************************************************************************)
(* Model of lib/utils/utils.js of eslint-plugin-ember: query helpers over  *)
(* an ESTree syntax tree.  Every exported function is modelled as an       *)
(* operator that computes what the JavaScript computes, including the      *)
(* TypeError raised by a property read on null/undefined and the in-place  *)
(* effects of Array.prototype.shift / reverse.  The state of a             *)
(* specification is one call: the arguments held by the caller, the        *)
(* position of the call and its outcome.                                   *)
(***************************************************************************)
EXTENDS Integers, Sequences, FiniteSets, TLC

VARIABLES
  fn,          \* the exported function the caller invokes
  ast,         \* the parent-linked tree the caller traverses (getAncestor)
  node,        \* the `node` / `arr` argument
  arg,         \* the second argument (path, initialObjToBinding, predicate)
  argAtEntry,  \* the second argument as it was when the caller built it
  pc,          \* "ready", "loop" (inside getAncestor's while), "done"
  currentNode, \* getAncestor's local `currentNode`
  tested,      \* the nodes the predicate was applied to, in order
  ret          \* outcomes of the calls made so far, oldest first

vars == <<fn, ast, node, arg, argAtEntry, pc, currentNode, tested, ret>>

(***************************************************************************)
(* Bounds of the model.                                                    *)
(***************************************************************************)
MaxDepth == 3     \* nesting depth of callee / member expressions
MaxArgs == 4      \* number of call arguments
MaxProps == 2     \* number of properties of an ObjectPattern
MaxArr == 4       \* length of the array given to findUnorderedProperty
MaxOrder == 3     \* largest `order` value
MaxPath == 2      \* number of segments of a property path
NumNodes == 5     \* nodes of a parent-linked tree

(***************************************************************************)
(* JavaScript values.  Primitives are tagged so that undefined, null,      *)
(* strings, numbers and booleans stay distinct; objects are records        *)
(* (AST nodes carry a `type` field).                                       *)
(***************************************************************************)
Undefined == [kind |-> "undefined"]
Null == [kind |-> "null"]
Str(s) == [kind |-> "string", val |-> s]
Num(n) == [kind |-> "number", val |-> n]
Bool(b) == [kind |-> "boolean", val |-> b]

\* Outcome of a call: a returned value or a thrown TypeError.
Return(v) == [outcome |-> "return", value |-> v]
Throw(e) == [outcome |-> "throw", error |-> e]
TypeError == Throw("TypeError")

\* ToBoolean: `argument.value`, `property &&`, `while (currentNode)`.
Truthy(v) ==
  IF "kind" \in DOMAIN v
  THEN CASE v.kind = "undefined" -> FALSE
         [] v.kind = "null" -> FALSE
         [] v.kind = "string" -> v.val # ""
         [] v.kind = "number" -> v.val # 0
         [] v.kind = "boolean" -> v.val
         [] OTHER -> TRUE
  ELSE TRUE

\* ToString as a template literal applies it to a string or undefined.
JSToString(v) ==
  CASE v.kind = "undefined" -> "undefined"
    [] v.kind = "null" -> "null"
    [] v.kind = "string" -> v.val
    [] v.kind = "boolean" -> IF v.val THEN "true" ELSE "false"

(***************************************************************************)
(* AST node shapes (ESTree).                                               *)
(***************************************************************************)
Identifier(n) == [type |-> "Identifier", name |-> n]
ThisExpression == [type |-> "ThisExpression"]
Literal(v) == [type |-> "Literal", value |-> v]
Member(t, o, p, c) == [type |-> t, object |-> o, property |-> p, computed |-> c]
Call(t, c, a) == [type |-> t, callee |-> c, arguments |-> a]

\* Type predicates imported from ../utils/types.
HasType(n, t) == "type" \in DOMAIN n /\ n.type = t
isAssignmentExpression(n) == HasType(n, "AssignmentExpression")
isCallExpression(n) == HasType(n, "CallExpression")
isIdentifier(n) == HasType(n, "Identifier")
isLiteral(n) == HasType(n, "Literal")
isMemberExpression(n) == HasType(n, "MemberExpression")
isNewExpression(n) == HasType(n, "NewExpression")
isObjectPattern(n) == HasType(n, "ObjectPattern")
isOptionalCallExpression(n) == HasType(n, "OptionalCallExpression")
isOptionalMemberExpression(n) == HasType(n, "OptionalMemberExpression")

(***************************************************************************)
(* The expressions the caller may hand in, up to a nesting depth.          *)
(***************************************************************************)
Names == {"a", "b", "c"}
Leaves == {Identifier(n) : n \in Names} \cup {ThisExpression, Literal(Str("k"))}
MemberTypes == {"MemberExpression", "OptionalMemberExpression"}
CallTypes == {"CallExpression", "OptionalCallExpression", "NewExpression"}

\* A non-computed property is an Identifier; a computed one is any expression.
PropertyShapes ==
  {[property |-> Identifier(n), computed |-> c] : n \in Names, c \in BOOLEAN}
    \cup {[property |-> Literal(Str("k")), computed |-> TRUE]}

\* An expression is a root leaf wrapped by member accesses and calls: the
\* links, innermost first.
Links ==
  {[link |-> "member", type |-> t, property |-> ps.property, computed |-> ps.computed] :
     t \in MemberTypes, ps \in PropertyShapes}
    \cup {[link |-> "call", type |-> t] : t \in CallTypes}

RECURSIVE Build(_, _)
Build(root, links) ==
  IF links = <<>> THEN root
  ELSE LET l == Head(links)
       IN Build(IF l.link = "member"
                THEN Member(l.type, root, l.property, l.computed)
                ELSE Call(l.type, root, <<>>),
                Tail(links))

NoCalls == <<>>

(***************************************************************************)
(* parseCallee                                                             *)
(***************************************************************************)
\* parseCallee with the final reverse() left out.
reverseOmitted(arr) == arr

\* Array.prototype.reverse
RECURSIVE reverse(_)
reverse(arr) ==
  IF arr = <<>> THEN <<>> ELSE Append(reverse(Tail(arr)), Head(arr))

\* while (isMemberExpression(callee)) { ... callee = callee.object; }
RECURSIVE calleeLoop(_, _)
calleeLoop(callee, parsedCallee) ==
  IF isMemberExpression(callee)
  THEN calleeLoop(callee.object,
                  IF isIdentifier(callee.property)
                  THEN Append(parsedCallee, callee.property.name)
                  ELSE parsedCallee)
  ELSE [callee |-> callee, parsedCallee |-> parsedCallee]

parseCallee(n) ==
  IF isCallExpression(n) \/ isNewExpression(n)
  THEN LET w == calleeLoop(n.callee, <<>>)
       IN reverse(IF isIdentifier(w.callee)
                  THEN Append(w.parsedCallee, w.callee.name)
                  ELSE w.parsedCallee)
  ELSE reverse(<<>>)

\* The state before a call of `f` on an expression of the bounded universe.
InitExpression(f) ==
  /\ fn = f
  /\ ast = <<>>
  /\ \E root \in Leaves, n \in 0..MaxDepth :
       \E links \in [1..n -> Links] : node = Build(root, links)
  /\ arg = Undefined
  /\ argAtEntry = Undefined
  /\ pc = "ready"
  /\ currentNode = Null
  /\ tested = <<>>
  /\ ret = NoCalls

InitCallee == InitExpression("parseCallee")

CallParseCallee ==
  /\ fn = "parseCallee"
  /\ pc = "ready"
  /\ ret' = Append(ret, Return(parseCallee(node)))
  /\ pc' = "done"
  /\ UNCHANGED <<fn, ast, node, arg, argAtEntry, currentNode, tested>>

SpecCallee == InitCallee /\ [][CallParseCallee]_vars

\* --- what the claims about parseCallee speak of ---------------------------
IsCallOrNew(n) == isCallExpression(n) \/ isNewExpression(n)

\* The node a callee chain of MemberExpressions bottoms out at.
RECURSIVE Terminal(_)
Terminal(c) == IF isMemberExpression(c) THEN Terminal(c.object) ELSE c

\* The MemberExpressions of a callee chain, outermost first.
RECURSIVE ChainMembers(_)
ChainMembers(c) ==
  IF isMemberExpression(c) THEN <<c>> \o ChainMembers(c.object) ELSE <<>>

\* Every member of the chain is non-computed with an Identifier property.
PlainChain(c) ==
  \A i \in DOMAIN ChainMembers(c) :
    /\ ~ChainMembers(c)[i].computed
    /\ isIdentifier(ChainMembers(c)[i].property)

\* p1..pn of a plain chain, the member nearest the root first.
RECURSIVE PropertyNames(_)
PropertyNames(c) ==
  IF isMemberExpression(c)
  THEN Append(PropertyNames(c.object), c.property.name)
  ELSE <<>>

RootName(c) ==
  IF isIdentifier(Terminal(c)) THEN <<Terminal(c).name>> ELSE <<>>

Elements(seq) == {seq[i] : i \in DOMAIN seq}

\* C5: parseCallee returns [r, p1, ..., pn] for a Call/New node over a plain
\* chain p1..pn with root Identifier r, [p1, ..., pn] when the chain bottoms
\* out at a non-Identifier, and [] for a node that is neither Call nor New.
C5_RootToLeafOrder ==
  (fn = "parseCallee" /\ pc = "done") =>
    IF IsCallOrNew(node)
    THEN PlainChain(node.callee) =>
           ret[1] = Return(RootName(node.callee) \o PropertyNames(node.callee))
    ELSE ret[1] = Return(<<>>)

\* `a.b.c()` has been parsed.
C5_Witness ==
  /\ pc = "done"
  /\ node = Call("CallExpression",
                 Member("MemberExpression",
                        Member("MemberExpression", Identifier("a"),
                               Identifier("b"), FALSE),
                        Identifier("c"), FALSE),
                 <<>>)
  /\ ret[1] = Return(<<"a", "b", "c">>)

\* C2: the name of a computed property never appears in parseCallee's result
\* (names that the chain also holds as its root or as a non-computed property
\* aside), and the root Identifier is still returned first.
C2_ComputedPropertyNotRecorded ==
  (fn = "parseCallee" /\ pc = "done" /\ IsCallOrNew(node)) =>
    LET ms == ChainMembers(node.callee)
        recorded == {ms[i].property.name :
                       i \in {j \in DOMAIN ms : ~ms[j].computed}}
                      \cup Elements(RootName(node.callee))
    IN /\ \A i \in DOMAIN ms :
            (ms[i].computed /\ isIdentifier(ms[i].property)
               /\ ms[i].property.name \notin recorded)
              => ms[i].property.name \notin Elements(ret[1].value)
       /\ isIdentifier(Terminal(node.callee)) =>
            /\ ret[1].value # <<>>
            /\ ret[1].value[1] = Terminal(node.callee).name

(***************************************************************************)
(* parseArgs                                                               *)
(***************************************************************************)
\* parseArgs with the `&& argument.value` test left out.
parseArgsEveryLiteral(n) ==
  IF isCallExpression(n)
  THEN LET kept == SelectSeq(n.arguments, isLiteral)
       IN [i \in 1..Len(kept) |-> kept[i].value]
  ELSE <<>>

parseArgs(n) ==
  IF isCallExpression(n)
  THEN LET keep(argument) == isLiteral(argument) /\ Truthy(argument.value)
           kept == SelectSeq(n.arguments, keep)
       IN [i \in 1..Len(kept) |-> kept[i].value]
  ELSE <<>>

\* The arguments a call may carry: literals of every falsy kind, truthy
\* literals, and a non-literal.
ArgumentNodes ==
  {Literal(v) : v \in {Str("x"), Str("y"), Str(""), Num(0), Num(1),
                       Bool(FALSE), Null}}
    \cup {Identifier("a")}

InitArgs ==
  /\ fn = "parseArgs"
  /\ ast = <<>>
  /\ \/ \E t \in CallTypes, n \in 0..MaxArgs :
          \E arguments \in [1..n -> ArgumentNodes] :
            node = Call(t, Identifier("f"), arguments)
     \/ node \in {Identifier("f"),
                  Member("MemberExpression", Identifier("a"), Identifier("b"), FALSE)}
  /\ arg = Undefined
  /\ argAtEntry = Undefined
  /\ pc = "ready"
  /\ currentNode = Null
  /\ tested = <<>>
  /\ ret = NoCalls

CallParseArgs ==
  /\ fn = "parseArgs"
  /\ pc = "ready"
  /\ ret' = Append(ret, Return(parseArgs(node)))
  /\ pc' = "done"
  /\ UNCHANGED <<fn, ast, node, arg, argAtEntry, currentNode, tested>>

SpecArgs == InitArgs /\ [][CallParseArgs]_vars

\* --- what the claim about parseArgs speaks of -----------------------------
FalsyLiteralValues == {Num(0), Str(""), Bool(FALSE), Null}

\* The values of the Literal arguments that are not falsy, front to back.
RECURSIVE TruthyLiteralValues(_)
TruthyLiteralValues(arguments) ==
  IF arguments = <<>> THEN <<>>
  ELSE LET a == Head(arguments)
       IN (IF a.type = "Literal" /\ a.value \notin FalsyLiteralValues
           THEN <<a.value>> ELSE <<>>)
            \o TruthyLiteralValues(Tail(arguments))

\* C10: on a Call node parseArgs returns the values of exactly the truthy
\* Literal arguments in argument order; on any other node (a New node
\* included) it returns the empty sequence.
C10_TruthyLiteralsInOrder ==
  (fn = "parseArgs" /\ pc = "done") =>
    IF node.type = "CallExpression"
    THEN ret[1] = Return(TruthyLiteralValues(node.arguments))
    ELSE ret[1] = Return(<<>>)

\* f('x', 0, 'y', null) has been parsed.
C10_Witness ==
  /\ pc = "done"
  /\ node = Call("CallExpression", Identifier("f"),
                 <<Literal(Str("x")), Literal(Num(0)), Literal(Str("y")), Literal(Null)>>)
  /\ ret[1] = Return(<<Str("x"), Str("y")>>)

(***************************************************************************)
(* getName                                                                 *)
(***************************************************************************)
RECURSIVE getName(_)
getName(n) ==
  IF isIdentifier(n) THEN Str(n.name)
  ELSE IF isCallExpression(n) \/ isOptionalCallExpression(n)
  THEN getName(n.callee)
  ELSE IF isMemberExpression(n) \/ isOptionalMemberExpression(n)
  THEN Str(JSToString(getName(n.object)) \o "." \o JSToString(getName(n.property)))
  ELSE Undefined

InitName == InitExpression("getName")

CallGetName ==
  /\ fn = "getName"
  /\ pc = "ready"
  /\ ret' = Append(ret, Return(getName(node)))
  /\ pc' = "done"
  /\ UNCHANGED <<fn, ast, node, arg, argAtEntry, currentNode, tested>>

SpecName == InitName /\ [][CallGetName]_vars

\* --- what the claim about getName speaks of -------------------------------
IsMemberLike(n) ==
  HasType(n, "MemberExpression") \/ HasType(n, "OptionalMemberExpression")
IsCallLike(n) ==
  HasType(n, "CallExpression") \/ HasType(n, "OptionalCallExpression")

\* A Member/OptionalMember chain with Identifier properties over `this` or an
\* Identifier, Call/OptionalCall wrappers allowed anywhere on the way.
RECURSIVE IsNamedChain(_)
IsNamedChain(n) ==
  \/ HasType(n, "Identifier")
  \/ HasType(n, "ThisExpression")
  \/ IsCallLike(n) /\ IsNamedChain(n.callee)
  \/ IsMemberLike(n) /\ HasType(n.property, "Identifier") /\ IsNamedChain(n.object)

\* The expression under the Call/OptionalCall wrappers of a node.
RECURSIVE Callee(_)
Callee(n) == IF IsCallLike(n) THEN Callee(n.callee) ELSE n

\* The dotted name the claim gives such a chain: `this.x.y` for this.x.y().
RECURSIVE DottedName(_)
DottedName(n) ==
  IF HasType(n, "Identifier") THEN n.name
  ELSE IF HasType(n, "ThisExpression") THEN "this"
  ELSE IF IsCallLike(n) THEN DottedName(n.callee)
  ELSE DottedName(n.object) \o "." \o DottedName(n.property)

\* C1: getName of a call or member chain is the name of the object, a dot
\* and the name of the property, calls resolved through their callee; a
\* chain rooted at `this` reads 'this.x.y'.
C1_DottedNameOfChain ==
  (fn = "getName" /\ pc = "done" /\ IsMemberLike(Callee(node))
     /\ IsNamedChain(node))
    => ret[1] = Return(Str(DottedName(node)))

(***************************************************************************)
(* findUnorderedProperty                                                   *)
(***************************************************************************)
\* The loop with `>=` in place of `>`.
RECURSIVE unorderedLoopNotStrict(_, _)
unorderedLoopNotStrict(arr, i) ==
  IF i < Len(arr) - 1
  THEN IF arr[i + 1].order >= arr[i + 2].order
       THEN arr[i + 1]
       ELSE unorderedLoopNotStrict(arr, i + 1)
  ELSE Null

\* for (let i = 0; i < arr.length - 1; i++): `i` is the JavaScript index,
\* arr[i + 1] the TLA+ element at that index.
RECURSIVE unorderedLoop(_, _)
unorderedLoop(arr, i) ==
  IF i < Len(arr) - 1
  THEN IF arr[i + 1].order > arr[i + 2].order
       THEN arr[i + 1]
       ELSE unorderedLoop(arr, i + 1)
  ELSE Null

findUnorderedProperty(arr) == unorderedLoop(arr, 0)

\* Records { order, node }: `node` tells apart two records of equal order.
InitUnordered ==
  /\ fn = "findUnorderedProperty"
  /\ ast = <<>>
  /\ \E n \in 0..MaxArr :
       \E order \in [1..n -> 0..MaxOrder] :
         node = [i \in 1..n |-> [order |-> order[i], node |-> i]]
  /\ arg = Undefined
  /\ argAtEntry = Undefined
  /\ pc = "ready"
  /\ currentNode = Null
  /\ tested = <<>>
  /\ ret = NoCalls

CallFindUnorderedProperty ==
  /\ fn = "findUnorderedProperty"
  /\ pc = "ready"
  /\ ret' = Append(ret, Return(findUnorderedProperty(node)))
  /\ pc' = "done"
  /\ UNCHANGED <<fn, ast, node, arg, argAtEntry, currentNode, tested>>

SpecUnordered == InitUnordered /\ [][CallFindUnorderedProperty]_vars

\* --- what the claim about findUnorderedProperty speaks of -----------------
\* The (TLA+) indices i with list[i].order > list[i+1].order.
Inversions(list) ==
  {i \in 1..(Len(list) - 1) : list[i].order > list[i + 1].order}

NonDecreasing(list) ==
  \A i, j \in DOMAIN list : i <= j => list[i].order <= list[j].order

\* C9: findUnorderedProperty returns the element at the smallest index whose
\* order exceeds its successor's, and null exactly when the orders are
\* non-decreasing (the empty and the one-element list included).
C9_FirstInversion ==
  (fn = "findUnorderedProperty" /\ pc = "done") =>
    /\ (ret[1] = Return(Null)) <=> NonDecreasing(node)
    /\ Inversions(node) # {} =>
         \E i \in Inversions(node) :
           /\ \A j \in Inversions(node) : i <= j
           /\ ret[1] = Return(node[i])

\* [{order:1},{order:3},{order:2}] has been scanned and gave the {order:3} record.
C9_Witness ==
  /\ pc = "done"
  /\ Len(node) = 3
  /\ node[1].order = 1 /\ node[2].order = 3 /\ node[3].order = 2
  /\ ret[1] = Return(node[2])

(***************************************************************************)
(* collectObjectPatternBindings                                            *)
(***************************************************************************)
Property(k, v) == [type |-> "Property", key |-> k, value |-> v]
RestElement(a) == [type |-> "RestElement", argument |-> a]
ObjectPattern(ps) == [type |-> "ObjectPattern", properties |-> ps]
VariableDeclarator(id, init) == [type |-> "VariableDeclarator", id |-> id, init |-> init]

\* `o.f` on an object: the field, or undefined when the object has none.
ReadField(o, f) == IF f \in DOMAIN o THEN o[f] ELSE Undefined

\* `o.name`: a TypeError on null and undefined, else the name or undefined.
ReadName(o) ==
  IF o \in {Null, Undefined} THEN TypeError
  ELSE Return(IF "name" \in DOMAIN o THEN Str(o.name) ELSE Undefined)

\* initialObjToBinding is an object: its entries in insertion order.
ObjectKeys(obj) == [i \in DOMAIN obj |-> obj[i].key]
Lookup(obj, k) == obj[CHOOSE i \in DOMAIN obj : obj[i].key = k].value

\* Array.prototype.indexOf / includes on an array of strings.
indexOf(arr, v) ==
  IF \E i \in DOMAIN arr : Str(arr[i]) = v
  THEN (CHOOSE i \in DOMAIN arr :
          /\ Str(arr[i]) = v
          /\ \A j \in DOMAIN arr : Str(arr[j]) = v => i <= j) - 1
  ELSE -1
includes(arr, v) == \E i \in DOMAIN arr : Str(arr[i]) = v

collectObjectPatternBindings(n, initialObjToBinding) ==
  IF ~isObjectPattern(n.id) THEN Return(<<>>)
  ELSE
    LET identifiers == ObjectKeys(initialObjToBinding)
        objBindingName == ReadName(n.init)
    IN IF objBindingName = TypeError THEN TypeError
       ELSE
         LET bindingIndex == indexOf(identifiers, objBindingName.value)
         IN IF bindingIndex = -1 THEN Return(<<>>)
            ELSE
              LET binding == identifiers[bindingIndex + 1]
                  properties == n.id.properties
                  keyName(props) == ReadName(ReadField(props, "key"))
                  valueName(props) == ReadName(ReadField(props, "value"))
                  keep(props) ==
                    includes(Lookup(initialObjToBinding, binding), keyName(props).value)
              IN IF \E i \in DOMAIN properties : keyName(properties[i]) = TypeError
                 THEN TypeError
                 ELSE LET kept == SelectSeq(properties, keep)
                      IN IF \E i \in DOMAIN kept : valueName(kept[i]) = TypeError
                         THEN TypeError
                         ELSE Return([i \in 1..Len(kept) |-> valueName(kept[i]).value])

\* Elements of a pattern: `key: value` with an Identifier or string-literal
\* key and an Identifier or nested-pattern value, and the rest element.
PatternProperties ==
  {Property(k, v) :
     k \in {Identifier("$"), Identifier("a"), Literal(Str("$"))},
     v \in {Identifier("foo"), Identifier("a"), ObjectPattern(<<>>)}}
PatternRest == RestElement(Identifier("rest"))

\* The left sides of a declarator: `x`, `{ ... }` and `{ ..., ...rest }`.
DeclaratorIds ==
  {Identifier("x")}
    \cup UNION {{ObjectPattern(ps) : ps \in [1..n -> PatternProperties]} : n \in 0..MaxProps}
    \cup UNION {{ObjectPattern(Append(ps, PatternRest)) :
                   ps \in [1..(n - 1) -> PatternProperties]} : n \in 1..MaxProps}

\* `init` is null in `for (const { a } of list)`.
DeclaratorInits ==
  {Null, Identifier("Ember"), Identifier("DS"),
   Call("CallExpression", Identifier("require"), <<>>)}

BindingMaps ==
  {<<>>,
   <<[key |-> "Ember", value |-> <<"$">>]>>,
   <<[key |-> "Ember", value |-> <<"$", "a">>]>>,
   <<[key |-> "DS", value |-> <<"a">>]>>,
   <<[key |-> "DS", value |-> <<"a">>], [key |-> "Ember", value |-> <<"$">>]>>}

InitBindings ==
  /\ fn = "collectObjectPatternBindings"
  /\ ast = <<>>
  /\ \E id \in DeclaratorIds, init \in DeclaratorInits :
       node = VariableDeclarator(id, init)
  /\ arg \in BindingMaps
  /\ argAtEntry = arg
  /\ pc = "ready"
  /\ currentNode = Null
  /\ tested = <<>>
  /\ ret = NoCalls

CallCollectObjectPatternBindings ==
  /\ fn = "collectObjectPatternBindings"
  /\ pc = "ready"
  /\ ret' = Append(ret, collectObjectPatternBindings(node, arg))
  /\ pc' = "done"
  /\ UNCHANGED <<fn, ast, node, arg, argAtEntry, currentNode, tested>>

SpecBindings == InitBindings /\ [][CallCollectObjectPatternBindings]_vars

\* --- what the claims about collectObjectPatternBindings speak of ----------
\* C4: on a declarator whose id is an ObjectPattern the call returns a
\* sequence and raises nothing, whatever init, keys and values are.
C4_NeverRaises ==
  (fn = "collectObjectPatternBindings" /\ pc = "done"
     /\ node.id.type = "ObjectPattern")
    => ret[1].outcome = "return"

\* The names bound for the declarator's init in the binding map, if any.
BoundNames(declarator, bindingMap) ==
  IF /\ declarator.init # Null
     /\ "name" \in DOMAIN declarator.init
     /\ \E i \in DOMAIN bindingMap : bindingMap[i].key = declarator.init.name
  THEN UNION {Elements(bindingMap[i].value) :
                i \in {k \in DOMAIN bindingMap : bindingMap[k].key = declarator.init.name}}
  ELSE {}

\* The local names of the properties whose key name is bound, in pattern order.
RECURSIVE LocalNames(_, _)
LocalNames(properties, bound) ==
  IF properties = <<>> THEN <<>>
  ELSE LET p == Head(properties)
           hit == /\ "key" \in DOMAIN p
                  /\ "name" \in DOMAIN p.key
                  /\ p.key.name \in bound
       IN (IF hit
           THEN <<IF "name" \in DOMAIN p.value THEN Str(p.value.name) ELSE Undefined>>
           ELSE <<>>)
            \o LocalNames(Tail(properties), bound)

\* C8: the call returns, in pattern order, property.value.name of exactly the
\* properties whose key name is bound for init's name; the empty sequence
\* when id is no ObjectPattern or init's name is no key of the binding map.
C8_LocalNamesOfBoundKeys ==
  (fn = "collectObjectPatternBindings" /\ pc = "done") =>
    ret[1] = Return(IF node.id.type = "ObjectPattern"
                    THEN LocalNames(node.id.properties, BoundNames(node, arg))
                    ELSE <<>>)

(***************************************************************************)
(* getPropertyValue                                                        *)
(***************************************************************************)
\* A path is a string, given by its characters, or an array of names that
\* the caller owns.
PathString(chars) == [kind |-> "string", chars |-> chars]
PathArray(elems) == [kind |-> "array", elems |-> elems]

\* String.prototype.split('.'): `cur` is the segment being read.
RECURSIVE splitLoop(_, _, _)
splitLoop(chars, cur, parts) ==
  IF chars = <<>> THEN Append(parts, cur)
  ELSE IF Head(chars) = "." THEN splitLoop(Tail(chars), "", Append(parts, cur))
  ELSE splitLoop(Tail(chars), cur \o Head(chars), parts)
split(chars) == splitLoop(chars, "", <<>>)

\* Array.prototype.join(','), the ToString of an array of names.
RECURSIVE join(_)
join(elems) ==
  IF elems = <<>> THEN ""
  ELSE IF Len(elems) = 1 THEN elems[1]
  ELSE elems[1] \o "," \o join(Tail(elems))

\* The text of a string given by its characters.
RECURSIVE text(_)
text(chars) == IF chars = <<>> THEN "" ELSE Head(chars) \o text(Tail(chars))

\* ToPropertyKey of the `path` argument in node[path].
PropertyKey(path) ==
  IF path.kind = "string" THEN text(path.chars) ELSE join(path.elems)

\* parts[0] as a property key: 'undefined' when the array is empty.
FirstKey(parts) == IF parts = <<>> THEN "undefined" ELSE parts[1]

\* o[k] for an object or a (non-null) primitive o.
Get(o, k) ==
  IF "kind" \in DOMAIN o THEN Undefined
  ELSE IF k \in DOMAIN o THEN o[k] ELSE Undefined

\* The value returned and the caller's path after the call: `parts` is the
\* caller's array itself when path is an array, so parts.shift() changes it,
\* and the recursive call goes on shifting the same array.
RECURSIVE getPropertyValue(_, _)
getPropertyValue(n, path) ==
  LET parts == IF path.kind = "string" THEN split(path.chars) ELSE path.elems
  IN IF Len(parts) = 1
     THEN [value |-> Get(n, PropertyKey(path)), path |-> path]
     ELSE LET property == Get(n, FirstKey(parts))
          IN IF Truthy(property) /\ Len(parts) > 1
             THEN LET inner == getPropertyValue(property, PathArray(Tail(parts)))
                  IN [value |-> inner.value,
                      path |-> IF path.kind = "array" THEN inner.path ELSE path]
             ELSE [value |-> property, path |-> path]

\* Objects two levels deep over the keys a and b: a field is absent, holds a
\* falsy or a truthy primitive, or holds an object.
Keys == {"a", "b"}
Primitives == {Num(0), Num(7), Null}
InnerObjects == UNION {[K -> Primitives] : K \in SUBSET Keys}
Objects == UNION {[K -> Primitives \cup InnerObjects] : K \in SUBSET Keys}

Paths ==
  UNION {{PathArray(elems) : elems \in [1..n -> Keys]} : n \in 0..MaxPath}
    \cup UNION {{PathString(chars) : chars \in [1..n -> Keys \cup {"."}]} :
                  n \in 0..(2 * MaxPath - 1)}

InitPropertyValue ==
  /\ fn = "getPropertyValue"
  /\ ast = <<>>
  /\ node \in Objects
  /\ arg \in Paths
  /\ argAtEntry = arg
  /\ pc = "ready"
  /\ currentNode = Null
  /\ tested = <<>>
  /\ ret = NoCalls

\* The caller calls getPropertyValue(node, path), twice at most, with the
\* same node and the same path object.
CallGetPropertyValue ==
  /\ fn = "getPropertyValue"
  /\ pc = "ready"
  /\ LET r == getPropertyValue(node, arg)
     IN /\ ret' = Append(ret, Return(r.value))
        /\ arg' = r.path
  /\ pc' = IF Len(ret) = 1 THEN "done" ELSE "ready"
  /\ UNCHANGED <<fn, ast, node, argAtEntry, currentNode, tested>>

SpecPropertyValue == InitPropertyValue /\ [][CallGetPropertyValue]_vars

\* C3: a call leaves its arguments unchanged and a second call with the same
\* arguments returns what the first returned; in particular for a pre-split
\* path of two or more names.
C3_PureRead ==
  (fn = "getPropertyValue" /\ argAtEntry.kind = "array"
     /\ Len(argAtEntry.elems) >= 2 /\ ret # NoCalls)
    => /\ arg = argAtEntry
       /\ Len(ret) = 2 => ret[1] = ret[2]

(***************************************************************************)
(* getAncestor and isInLeftSideOfAssignmentExpression                      *)
(***************************************************************************)
\* A reference to the node ast[i]; `parent` holds such a reference or null.
Ref(i) == [ref |-> i]
Deref(r) == ast[r.ref]
Refs == {Ref(i) : i \in DOMAIN ast}

\* Parent links that form a forest: a parent has a larger index than its
\* children, and at most two children.
ParentMaps ==
  {p \in [1..NumNodes -> 0..NumNodes] :
     /\ \A i \in 1..NumNodes : p[i] = 0 \/ p[i] > i
     /\ \A i \in 1..NumNodes : Cardinality({c \in 1..NumNodes : p[c] = i}) <= 2}

\* The tree with the given parents, types and left operands: `isLeft[i]`
\* says that node i is the left operand of its parent.
Tree(p, type, isLeft) ==
  [i \in 1..NumNodes |->
     IF type[i] = "AssignmentExpression"
     THEN [type |-> type[i],
           parent |-> IF p[i] = 0 THEN Null ELSE Ref(p[i]),
           left |-> Ref(CHOOSE c \in 1..NumNodes : p[c] = i /\ isLeft[c])]
     ELSE [type |-> type[i],
           parent |-> IF p[i] = 0 THEN Null ELSE Ref(p[i])]]

\* Every assignment has exactly one left operand among its children, and
\* only children of assignments are left operands.
WellFormed(p, type, isLeft) ==
  /\ \A i \in 1..NumNodes :
       isLeft[i] => p[i] # 0 /\ type[p[i]] = "AssignmentExpression"
  /\ \A i \in 1..NumNodes :
       type[i] = "AssignmentExpression" =>
         Cardinality({c \in 1..NumNodes : p[c] = i /\ isLeft[c]}) = 1

NodeTypes == {"AssignmentExpression", "MemberExpression"}

\* let currentNode = node, with the start node skipped.
startAtParent(n) == IF n = Null THEN Null ELSE Deref(n).parent

\* let currentNode = node;
startNode(n) == n

\* The arrow function of isInLeftSideOfAssignmentExpression, with the
\* `ancestor === ancestor.parent.left` test left out.
anySidePredicate(ancestor) ==
  /\ Truthy(Deref(ancestor).parent)
  /\ isAssignmentExpression(Deref(Deref(ancestor).parent))

\* The arrow function of isInLeftSideOfAssignmentExpression.
leftSidePredicate(ancestor) ==
  /\ Truthy(Deref(ancestor).parent)
  /\ isAssignmentExpression(Deref(Deref(ancestor).parent))
  /\ ancestor = ReadField(Deref(Deref(ancestor).parent), "left")

\* A predicate is held as the set of nodes it is truthy for.
predicate(n) == n \in arg

\* What the exported function returns for getAncestor's result `found`.
Result(found) ==
  IF fn = "isInLeftSideOfAssignmentExpression" THEN Bool(Truthy(found)) ELSE found

InitAncestor ==
  /\ \E p \in ParentMaps :
       \/ /\ fn = "getAncestor"
          /\ ast = Tree(p, [i \in 1..NumNodes |-> "MemberExpression"],
                        [i \in 1..NumNodes |-> FALSE])
          /\ node \in Refs \cup {Null}
          /\ arg \in SUBSET Refs
       \/ /\ fn = "isInLeftSideOfAssignmentExpression"
          /\ \E type \in [1..NumNodes -> NodeTypes], isLeft \in [1..NumNodes -> BOOLEAN] :
               /\ WellFormed(p, type, isLeft)
               /\ ast = Tree(p, type, isLeft)
          /\ node \in Refs
          /\ arg = {}    \* the predicate is built by the call
  /\ argAtEntry = arg
  /\ pc = "ready"
  /\ currentNode = Null
  /\ tested = <<>>
  /\ ret = NoCalls

\* getAncestor(node, predicate) is entered.
CallGetAncestor ==
  /\ fn = "getAncestor"
  /\ pc = "ready"
  /\ currentNode' = startNode(node)
  /\ pc' = "loop"
  /\ UNCHANGED <<fn, ast, node, arg, argAtEntry, tested, ret>>

\* isInLeftSideOfAssignmentExpression(node) enters getAncestor with its
\* arrow function as the predicate.
CallIsInLeftSideOfAssignmentExpression ==
  /\ fn = "isInLeftSideOfAssignmentExpression"
  /\ pc = "ready"
  /\ arg' = {r \in Refs : leftSidePredicate(r)}
  /\ currentNode' = startNode(node)
  /\ pc' = "loop"
  /\ UNCHANGED <<fn, ast, node, argAtEntry, tested, ret>>

\* One iteration whose predicate call is truthy: return currentNode.
LoopFound ==
  /\ pc = "loop"
  /\ Truthy(currentNode)
  /\ predicate(currentNode)
  /\ tested' = Append(tested, currentNode)
  /\ ret' = Append(ret, Return(Result(currentNode)))
  /\ pc' = "done"
  /\ UNCHANGED <<fn, ast, node, arg, argAtEntry, currentNode>>

\* One iteration whose predicate call is falsy: move to the parent.
LoopAdvance ==
  /\ pc = "loop"
  /\ Truthy(currentNode)
  /\ ~predicate(currentNode)
  /\ tested' = Append(tested, currentNode)
  /\ currentNode' = Deref(currentNode).parent
  /\ UNCHANGED <<fn, ast, node, arg, argAtEntry, pc, ret>>

\* while (currentNode) fails: return null.
LoopExit ==
  /\ pc = "loop"
  /\ ~Truthy(currentNode)
  /\ ret' = Append(ret, Return(Result(Null)))
  /\ pc' = "done"
  /\ UNCHANGED <<fn, ast, node, arg, argAtEntry, currentNode, tested>>

NextAncestor ==
  \/ CallGetAncestor
  \/ CallIsInLeftSideOfAssignmentExpression
  \/ LoopFound
  \/ LoopAdvance
  \/ LoopExit

SpecAncestor == InitAncestor /\ [][NextAncestor]_vars

\* The call runs to completion: JavaScript runs the loop without preemption.
FairSpecAncestor == SpecAncestor /\ WF_vars(NextAncestor)

\* --- what the claims about the ancestor walk speak of ---------------------
\* The parent chain of n: n itself, its parent, ..., the root.
RECURSIVE ParentChain(_)
ParentChain(n) ==
  IF n = Null THEN <<>> ELSE <<n>> \o ParentChain(Deref(n).parent)

\* Positions of the chain whose node satisfies the predicate given at entry.
Matches(chain) == {i \in DOMAIN chain : chain[i] \in argAtEntry}

\* C7, the walk: the nodes tested so far are the first nodes of the parent
\* chain in child-to-root order, none of them but the last satisfies the
\* predicate; the call returns the nearest satisfying node having tested
\* nothing above it, and null exactly when no node of the chain satisfies
\* the predicate.
C7_Walk ==
  fn = "getAncestor" =>
    LET chain == ParentChain(node)
    IN /\ Len(tested) <= Len(chain)
       /\ tested = SubSeq(chain, 1, Len(tested))
       /\ \A i \in 1..(Len(tested) - 1) : i \notin Matches(chain)
       /\ pc = "done" =>
            /\ (ret[1] = Return(Null)) <=> (Matches(chain) = {})
            /\ Matches(chain) = {} => tested = chain
            /\ Matches(chain) # {} =>
                 /\ Len(tested) \in Matches(chain)
                 /\ ret[1] = Return(chain[Len(tested)])

\* C7: getAncestor walks the parent chain once, upward from the start node,
\* returns the nearest node satisfying the predicate or null when there is
\* none, and always terminates.
C7_SingleUpwardWalk == [](C7_Walk) /\ <>(pc = "done")

\* A walk that tested two nodes in vain and returned the third, which is not
\* the root.
C7_Witness ==
  /\ fn = "getAncestor"
  /\ pc = "done"
  /\ Len(tested) = 3
  /\ ret[1] = Return(tested[3])
  /\ Deref(tested[3]).parent # Null
  /\ Deref(tested[3]).parent \in argAtEntry

\* C6: isInLeftSideOfAssignmentExpression(node) is true exactly when some
\* node a of node's parent chain (node included) has an AssignmentExpression
\* parent of which a is the left operand.
C6_LeftSideIffOnChain ==
  (fn = "isInLeftSideOfAssignmentExpression" /\ pc = "done") =>
    ret[1] = Return(Bool(
      \E a \in Elements(ParentChain(node)) :
        /\ Deref(a).parent # Null
        /\ Deref(Deref(a).parent).type = "AssignmentExpression"
        /\ Deref(Deref(a).parent).left = a))

\* `L = R` with a node two levels inside L: true for it, and R is a sibling.
C6_Witness ==
  /\ fn = "isInLeftSideOfAssignmentExpression"
  /\ pc = "done"
  /\ ret[1] = Return(Bool(TRUE))
  /\ Len(tested) = 2
  /\ \E r \in Refs : r # tested[2] /\ Deref(r).parent = Deref(tested[2]).parent

\* The right operand of an assignment has been queried and gave false.
C6_WitnessRight ==
  /\ fn = "isInLeftSideOfAssignmentExpression"
  /\ pc = "done"
  /\ ret[1] = Return(Bool(FALSE))
  /\ Deref(node).parent # Null
  /\ Deref(Deref(node).parent).type = "AssignmentExpression"

====
